---- MODULE Spec2Model ----
(***************************************************************************)
(* A model of ddiff (src/py/ddiff.py): the classification of a path        *)
(* (file_type), the comparison of two paths (diff_file, diff_dir) and the  *)
(* listing pass of the viewer (DirDiffApp.watch_cwd) with the handlers     *)
(* that request one.                                                       *)
(*                                                                         *)
(* A name is a sequence of character codes ("a" is <<97>>, "f10" is        *)
(* <<102, 49, 48>>), so that ordering, digit runs and pattern matching are *)
(* computed on it as Python computes them on a str.                        *)
(*                                                                         *)
(* A path is a record [lnk, obj]: obj is what os.stat() finds at the path  *)
(* after following symlinks (Nothing when there is no such thing), and lnk *)
(* says that the directory entry itself is a symlink.  [lnk |-> TRUE,      *)
(* obj |-> Nothing] is a dangling symlink.                                 *)
(***************************************************************************)
EXTENDS Integers, Sequences, FiniteSets, TLC

VARIABLES
    left,       \* conf.left  (in SpecDiff: the left argument)
    right,      \* conf.right (in SpecDiff: the right argument)
    exclude,    \* conf.exclude: the set of configured literal patterns
    ret,        \* SpecDiff: the last call made and what it returned or raised
    cwd,        \* DirDiffApp.cwd: the names leading from the roots to the view
    files,      \* the children of the ListView #files: the displayed entries
    passes,     \* the watch_cwd coroutines, in the order they were created
    crashed     \* an exception left a coroutine: the app has exited

(***************************************************************************)
(* Bounds and input sets                                                   *)
(***************************************************************************)
\* longest file content, in bytes
MaxLen == 2

Bytes == {1, 2}

Contents == UNION {[1..n -> Bytes] : n \in 0..MaxLen}

Mtimes == {1, 2}

\* "a" and "b": the names of the children of a compared directory
KidNames == {<<97>>, <<98>>}

Nothing == [kind |-> "none"]

\* What stat() reports of a file: its kind (S_IFMT of st_mode), the permission
\* bits of st_mode, its bytes (st_size is their number), st_mtime, and for a
\* directory its entries.  At() adds st_dev and st_ino.
Obj(kind, bits, data, mtime, kids) ==
    [kind |-> kind, bits |-> bits, data |-> data, mtime |-> mtime, kids |-> kids]

Entry(lnk, obj) == [lnk |-> lnk, obj |-> obj]

Regs(modes, contents, mtimes) ==
    {Obj("S_IFREG", b, d, m, <<>>) : b \in modes, d \in contents, m \in mtimes}

Specials == {Obj(k, {}, <<>>, 1, <<>>) : k \in {"S_IFSOCK", "S_IFIFO"}}

\* the directories whose entries are drawn from `entries`, under `names`
Dirs(modes, names, entries) ==
    {Obj("S_IFDIR", b, <<>>, 1, kids) :
        b \in modes, kids \in UNION {[S -> entries] : S \in SUBSET names}}

\* the entries of a compared directory: two files that differ in size-equal
\* content and mtime, a socket, an empty directory
KidEntries ==
    {Entry(FALSE, o) :
        o \in {Obj("S_IFREG", {}, <<1>>, 1, <<>>), Obj("S_IFREG", {}, <<2>>, 2, <<>>),
               Obj("S_IFSOCK", {}, <<>>, 1, <<>>), Obj("S_IFDIR", {}, <<>>, 1, <<>>)}}

\* the paths diff_file and file_type are applied to, before At()
PathShapes ==
    {Entry(lnk, o) :
        lnk \in BOOLEAN,
        o \in {Nothing} \cup Regs({{}, {"S_IXUSR"}}, Contents, Mtimes) \cup Specials
                \cup Dirs({{}, {"S_ISVTX"}}, KidNames, KidEntries)}

\* The file identity stat() reports.  st_ino is kept as the inode number of a
\* root followed by the names leading from it to the file, which is one
\* value per file as an inode number is; st_dev is that of the root.
RECURSIVE At(_, _, _)
At(entry, dev, ino) ==
    IF entry.obj = Nothing THEN entry
    ELSE Entry(entry.lnk,
               [kind |-> entry.obj.kind, bits |-> entry.obj.bits,
                data |-> entry.obj.data, mtime |-> entry.obj.mtime,
                kids |-> [n \in DOMAIN entry.obj.kids |->
                             At(entry.obj.kids[n], dev, Append(ino, n))],
                st_dev |-> dev, st_ino |-> ino])

\* Only the equality of st_dev and of st_ino is ever read: the left path is
\* (device 1, inode 1), the right one the same file, another inode of the
\* device, or the same inode number on another device.
LeftId == <<1, <<1>>>>

RightIds == {<<1, <<1>>>>, <<1, <<2>>>>, <<2, <<1>>>>}

\* the default configuration, and a pattern "b"
Excludes == {{}, {<<98>>}}

(***************************************************************************)
(* Results: a Status value, a FileType value, or the exception raised      *)
(***************************************************************************)
Status == {"Matching", "Unknown", "Different", "LeftOnly", "RightOnly"}

FileTypes ==
    {"Normal", "Missing", "File", "Setuid", "Setgid", "Executable",
     "Directory", "Sticky", "StickyWrite", "OtherWrite", "Symlink", "Orphan",
     "BlockDevice", "CharDevice", "NamedPipe", "Socket", "Door", "Unknown"}

Exceptions ==
    {"FileNotFoundError", "NotADirectoryError", "NameError", "UnboundLocalError"}

(***************************************************************************)
(* The filesystem as the program reads it                                  *)
(***************************************************************************)
\* Path.stat() follows symlinks: what it raises ("none" when it returns)
StatError(path) ==
    IF path.obj = Nothing THEN "FileNotFoundError" ELSE "none"

\* Path.stat(): the stat_result, when it returns
Stat(path) == path.obj

S_ISLNK(st) == st.kind = "S_IFLNK"

S_ISDIR(st) == st.kind = "S_IFDIR"

S_ISREG(st) == st.kind = "S_IFREG"

\* Path.is_dir(): follows symlinks, False when nothing is there
IsDir(path) == path.obj # Nothing /\ S_ISDIR(path.obj)

\* Path.resolve(): the path with its symlinks followed
Resolve(path) == [lnk |-> FALSE, obj |-> path.obj]

\* Path.iterdir(): what it raises ("none" when it returns)
IterDirError(path) ==
    IF path.obj = Nothing THEN "FileNotFoundError"
    ELSE IF ~S_ISDIR(path.obj) THEN "NotADirectoryError"
    ELSE "none"

\* Path.iterdir(): the names in the directory
IterDir(path) == DOMAIN path.obj.kids

\* path / name
Child(path, name) ==
    IF path.obj # Nothing /\ S_ISDIR(path.obj) /\ name \in DOMAIN path.obj.kids
        THEN path.obj.kids[name]
    ELSE [lnk |-> FALSE, obj |-> Nothing]

(***************************************************************************)
(* file_type                                                               *)
(***************************************************************************)
Executable == {"S_IXUSR", "S_IXGRP", "S_IXOTH"}

FileTypeOfMode(st) ==
    IF S_ISLNK(st) THEN "Symlink"
    ELSE IF S_ISDIR(st) THEN
        IF "S_ISVTX" \in st.bits /\ "S_IWOTH" \in st.bits THEN "StickyWrite"
        ELSE IF "S_IWOTH" \in st.bits THEN "OtherWrite"
        ELSE IF "S_ISVTX" \in st.bits THEN "Sticky"
        ELSE "Directory"
    ELSE IF st.kind = "S_IFDOOR" THEN "Door"
    ELSE IF st.kind = "S_IFBLK" THEN "BlockDevice"
    ELSE IF st.kind = "S_IFCHR" THEN "CharDevice"
    ELSE IF st.kind = "S_IFIFO" THEN "NamedPipe"
    ELSE IF st.kind = "S_IFSOCK" THEN "Socket"
    ELSE IF ~S_ISREG(st) THEN "Unknown"
    ELSE IF "S_ISUID" \in st.bits THEN "Setuid"
    ELSE IF "S_ISGID" \in st.bits THEN "Setgid"
    ELSE IF st.bits \cap Executable # {} THEN "Executable"
    ELSE "File"

\* The handler of FileNotFoundError reads `mode`, which the failed
\* assignment left unbound: UnboundLocalError, whatever the path is.
FileType(path) ==
    IF StatError(path) = "FileNotFoundError" THEN "UnboundLocalError"
    ELSE FileTypeOfMode(Stat(path))

(***************************************************************************)
(* filecmp.cmp(left, right) with its default shallow=True                  *)
(***************************************************************************)
Sig(st) == <<st.kind, Len(st.data), st.mtime>>

FileCmp(l, r) ==
    LET s1 == Sig(Stat(l))
        s2 == Sig(Stat(r))
    IN  IF s1[1] # "S_IFREG" \/ s2[1] # "S_IFREG" THEN FALSE
        ELSE IF s1 = s2 THEN TRUE
        ELSE IF s1[2] # s2[2] THEN FALSE
        ELSE Stat(l).data = Stat(r).data

(***************************************************************************)
(* conf.exclude: the alternation of r'^\b$' (which matches no name) and    *)
(* the configured patterns, here literal strings                           *)
(***************************************************************************)
IsPrefix(p, s) == Len(p) <= Len(s) /\ SubSeq(s, 1, Len(p)) = p

\* exclude.match(name): a pattern matches at the start of the name
ExcludeMatch(pats, name) == \E p \in pats : IsPrefix(p, name)

\* exclude.search(name): a pattern matches somewhere in the name
ExcludeSearch(pats, name) ==
    \E p \in pats : \E i \in 0..Len(name) :
        IsPrefix(p, SubSeq(name, i + 1, Len(name)))

(***************************************************************************)
(* Orders                                                                  *)
(***************************************************************************)
\* str < str in Python: by code point, a proper prefix first
RECURSIVE LexLess(_, _)
LexLess(s, t) ==
    IF t = <<>> THEN FALSE
    ELSE IF s = <<>> THEN TRUE
    ELSE IF Head(s) # Head(t) THEN Head(s) < Head(t)
    ELSE LexLess(Tail(s), Tail(t))

\* list.sort() of the paths of one directory: by name
RECURSIVE SortNames(_)
SortNames(S) ==
    IF S = {} THEN <<>>
    ELSE LET m == CHOOSE x \in S : \A y \in S \ {x} : LexLess(x, y)
         IN  <<m>> \o SortNames(S \ {m})

IsDigit(c) == c \in 48..57

RECURSIVE DigitsLen(_)
DigitsLen(s) ==
    IF s = <<>> \/ ~IsDigit(Head(s)) THEN 0 ELSE 1 + DigitsLen(Tail(s))

RECURSIVE TextLen(_)
TextLen(s) ==
    IF s = <<>> \/ IsDigit(Head(s)) THEN 0 ELSE 1 + TextLen(Tail(s))

\* int() of a run of digits
RECURSIVE NumVal(_)
NumVal(s) ==
    IF s = <<>> THEN 0
    ELSE NumVal(SubSeq(s, 1, Len(s) - 1)) * 10 + (s[Len(s)] - 48)

\* natsort's key of a name: its text and its digit runs in turn, a digit run
\* as the number it writes; an empty text leads when the name starts with a
\* digit, so that texts meet texts and numbers meet numbers
RECURSIVE NatKey(_)
NatKey(s) ==
    IF s = <<>> THEN <<>>
    ELSE LET t == TextLen(s)
             rest == SubSeq(s, t + 1, Len(s))
             d == DigitsLen(rest)
         IN  <<SubSeq(s, 1, t)>> \o
             (IF d = 0 THEN <<>>
              ELSE <<NumVal(SubSeq(rest, 1, d))>>
                   \o NatKey(SubSeq(rest, d + 1, Len(rest))))

\* tuple < tuple on two keys; the parts at odd places are texts
RECURSIVE KeyLess(_, _, _)
KeyLess(a, b, pos) ==
    IF pos > Len(b) THEN FALSE
    ELSE IF pos > Len(a) THEN TRUE
    ELSE IF a[pos] # b[pos] THEN
        IF pos % 2 = 1 THEN LexLess(a[pos], b[pos]) ELSE a[pos] < b[pos]
    ELSE KeyLess(a, b, pos + 1)

NatLess(s, t) == KeyLess(NatKey(s), NatKey(t), 1)

\* natsort.natsorted(set): the names in the order of their keys.  Names of
\* equal keys ("f2", "f02") stay in the order the set yields them, which is
\* any order: every such result is one natsorted may return.
RECURSIVE NatSorted(_)
NatSorted(S) ==
    IF S = {} THEN {<<>>}
    ELSE UNION {{<<m>> \o t : t \in NatSorted(S \ {m})} :
                    m \in {x \in S : \A y \in S : ~NatLess(y, x)}}

(***************************************************************************)
(* diff_file and diff_dir                                                  *)
(***************************************************************************)
\* a shortcut taken for regular files only
SameFileRegOnly(lstat, rstat) ==
    /\ S_ISREG(lstat)
    /\ lstat.st_dev = rstat.st_dev /\ lstat.st_ino = rstat.st_ino

\* the test of line 471
SameFile(lstat, rstat) ==
    lstat.st_dev = rstat.st_dev /\ lstat.st_ino = rstat.st_ino

RECURSIVE DiffFile(_, _, _)
RECURSIVE DiffDir(_, _, _)
RECURSIVE DiffDirLoop(_, _, _, _, _, _)

\* the second loop of diff_dir, from the k-th pair on
DiffDirLoop(l, r, names, k, status, pats) ==
    IF k > Len(names) THEN status
    ELSE LET entry == DiffFile(Child(l, names[k]), Child(r, names[k]), pats)
         IN  IF entry \in Exceptions THEN entry
             ELSE IF entry = "Matching"
                 THEN DiffDirLoop(l, r, names, k + 1, status, pats)
             ELSE IF entry = "Unknown"
                 THEN DiffDirLoop(l, r, names, k + 1, "Unknown", pats)
             ELSE "Different"

DiffDir(l, r, pats) ==
    IF IterDirError(l) # "none" THEN IterDirError(l)
    ELSE IF IterDirError(r) # "none" THEN IterDirError(r)
    ELSE LET lefts == SortNames({n \in IterDir(l) : ~ExcludeMatch(pats, n)})
             rights == SortNames({n \in IterDir(r) : ~ExcludeMatch(pats, n)})
         IN  IF Len(lefts) # Len(rights) THEN "Different"
             ELSE IF \E k \in 1..Len(lefts) : lefts[k] # rights[k]
                 THEN "Different"
             ELSE DiffDirLoop(l, r, lefts, 1, "Matching", pats)

DiffFile(l, r, pats) ==
    IF StatError(l) # "none" THEN StatError(l)
    ELSE IF StatError(r) # "none" THEN StatError(r)
    ELSE LET lstat == Stat(l)
             rstat == Stat(r)
         IN  IF SameFile(lstat, rstat) THEN "Matching"
             ELSE IF S_ISLNK(lstat) THEN DiffFile(Resolve(l), r, pats)
             ELSE IF S_ISLNK(rstat) THEN DiffFile(l, Resolve(r), pats)
             ELSE IF S_ISDIR(lstat) /\ S_ISDIR(rstat) THEN DiffDir(l, r, pats)
             ELSE IF S_ISREG(lstat) /\ S_ISREG(rstat) THEN
                 IF FileCmp(l, r) THEN "Matching" ELSE "Different"
             \* `ltype != rtype`: neither name is defined anywhere
             ELSE "NameError"

(***************************************************************************)
(* SpecDiff: the functions applied to any two paths                        *)
(***************************************************************************)
vars == <<left, right, exclude, ret, cwd, files, passes, crashed>>

conf == <<left, right, exclude>>

app == <<cwd, files, passes, crashed>>

NoRet == [fn |-> "none", status |-> "none", ltype |-> "none", rtype |-> "none"]

InitDiff ==
    /\ left \in {At(p, LeftId[1], LeftId[2]) : p \in PathShapes}
    /\ right \in {At(p, id[1], id[2]) : p \in PathShapes, id \in RightIds}
    \* one (st_dev, st_ino) is one file
    /\ (left.obj # Nothing /\ right.obj # Nothing
            /\ left.obj.st_dev = right.obj.st_dev
            /\ left.obj.st_ino = right.obj.st_ino) => left.obj = right.obj
    /\ exclude \in IF IsDir(left) /\ IsDir(right) THEN Excludes ELSE {{}}
    /\ ret = NoRet
    /\ cwd = <<>> /\ files = <<>> /\ passes = <<>> /\ crashed = FALSE

CallDiffFile ==
    /\ ret = NoRet
    /\ ret' = [NoRet EXCEPT !.fn = "diff_file",
                            !.status = DiffFile(left, right, exclude)]
    /\ UNCHANGED <<conf, app>>

CallDiffDir ==
    /\ ret = NoRet
    /\ IsDir(left) /\ IsDir(right)
    /\ ret' = [NoRet EXCEPT !.fn = "diff_dir",
                            !.status = DiffDir(left, right, exclude)]
    /\ UNCHANGED <<conf, app>>

CallFileType ==
    /\ ret = NoRet
    /\ ret' = [NoRet EXCEPT !.fn = "file_type",
                            !.ltype = FileType(left), !.rtype = FileType(right)]
    /\ UNCHANGED <<conf, app>>

NextDiff == CallDiffFile \/ CallDiffDir \/ CallFileType

SpecDiff == InitDiff /\ [][NextDiff]_vars

(***************************************************************************)
(* DirDiffApp: the listing pass (watch_cwd) and the handlers that ask for  *)
(* one                                                                     *)
(***************************************************************************)
\* watch_cwd coroutines created in one run
MaxPasses == 3

\* `if index % 4 == 0: await append`
Batch == 4

\* "d", the one name that is a directory
AppDirName == <<100>>

\* "f2", under which a root has any file
AppFileName == <<102, 50>>

\* "f02", "f10" and "x", which both roots have as the file FileA, or neither
\* has.  natsort gives "f02" the key of "f2", and sorts "f10" after both.
AppPlainNames == {<<102, 48, 50>>, <<102, 49, 48>>, <<120>>}

AppNames == {AppDirName, AppFileName} \cup AppPlainNames

FileA == Obj("S_IFREG", {}, <<1>>, 1, <<>>)

\* what a root has under "f2": a file, a socket, a dangling symlink
AppFileEntries ==
    {Entry(FALSE, FileA), Entry(FALSE, Obj("S_IFSOCK", {}, <<>>, 1, <<>>)),
     Entry(TRUE, Nothing)}

\* what a root has under "d": a directory, empty or with a file "a1", a
\* name the pattern "1" matches, but not at its start
AppDirEntries ==
    {Entry(FALSE, o) : o \in Dirs({{}}, {<<97, 49>>}, {Entry(FALSE, FileA)})}

AppAllowed(name) ==
    IF name = AppDirName THEN AppDirEntries
    ELSE IF name = AppFileName THEN AppFileEntries
    ELSE {Entry(FALSE, FileA)}

\* the directories conf.left and conf.right may name
AppRoots ==
    {Entry(FALSE, Obj("S_IFDIR", {}, <<>>, 1, kids)) :
        kids \in {k \in UNION {[S -> AppFileEntries \cup AppDirEntries] :
                                S \in SUBSET AppNames} :
                    \A n \in DOMAIN k : k[n] \in AppAllowed(n)}}

\* the default configuration, and a pattern "1"
AppExcludes == {{}, {<<49>>}}

\* conf.left / self.cwd
RECURSIVE Walk(_, _)
Walk(root, path) ==
    IF path = <<>> THEN root ELSE Walk(Child(root, Head(path)), Tail(path))

\* a coroutine object of watch_cwd, its body not yet entered
NewPass ==
    [pc |-> "created", dir |-> <<>>, sortedfiles |-> <<>>, index |-> 0,
     entries |-> <<>>, k |-> 0, mid |-> FALSE]

Suspended(p) == p.pc \in {"loop", "sleep", "status"}

\* the message pump of the app is inside a callback
Running == \E i \in DOMAIN passes : Suspended(passes[i])

\* cwd is a reactive of the App and watch_cwd its async watcher: setting cwd
\* calls watch_cwd, which only creates the coroutine, and hands it to the
\* message pump of the app, which awaits such callbacks one after the other.
\* The body of a pass is entered when every earlier pass has returned.
Awaited(i) == \A j \in 1..(i - 1) : passes[j].pc = "done"

\* a ListView that keeps its items
ClearKeeps(items) == items

\* files.clear()
Clear(items) == <<>>

\* left and right types given to the wrong sides of a one-sided entry
DiffEntrySwapped(name, l, r, lt, rt, by) ==
    [name |-> name, by |-> by, wr |-> 0, paired |-> l /\ r,
     status |-> IF l /\ r THEN "Unknown" ELSE IF l THEN "LeftOnly" ELSE "RightOnly",
     left |-> IF l /\ r THEN lt ELSE IF l THEN "Missing" ELSE rt,
     right |-> IF l /\ r THEN rt ELSE IF l THEN lt ELSE "Missing"]

\* The DiffEntry of lines 367-372; lt and rt are the file_type of the two
\* sides.  by (the pass that made it), wr (the pass that last assigned its
\* status on line 378) and paired (it went into `entries`) are history.
DiffEntry(name, l, r, lt, rt, by) ==
    [name |-> name, by |-> by, wr |-> 0, paired |-> l /\ r,
     status |-> IF l /\ r THEN "Unknown" ELSE IF l THEN "LeftOnly" ELSE "RightOnly",
     left |-> IF l THEN lt ELSE "Missing",
     right |-> IF r THEN rt ELSE "Missing"]

\* The loop of lines 364-374 from `index` on, until it awaits an append,
\* ends, or file_type raises: the items, `entries`, the index and where the
\* coroutine stands then.
RECURSIVE ListLoop(_, _, _, _, _, _)
ListLoop(by, dir, sortedfiles, items, entries, index) ==
    IF index >= Len(sortedfiles)
        THEN [files |-> items, entries |-> entries, index |-> index, pc |-> "sleep"]
    ELSE
        LET name == sortedfiles[index + 1]
            l == name \in IterDir(Walk(left, dir))
            r == name \in IterDir(Walk(right, dir))
            lt == IF l THEN FileType(Child(Walk(left, dir), name)) ELSE "Missing"
            rt == IF r THEN FileType(Child(Walk(right, dir), name)) ELSE "Missing"
            added == Append(items, DiffEntry(name, l, r, lt, rt, by))
            paired == IF l /\ r THEN Append(entries, name) ELSE entries
        IN  IF ExcludeSearch(exclude, name)
                THEN ListLoop(by, dir, sortedfiles, items, entries, index + 1)
            ELSE IF lt \in Exceptions \/ rt \in Exceptions
                THEN [files |-> items, entries |-> entries, index |-> index,
                      pc |-> "raised"]
            ELSE IF index % Batch = 0
                THEN [files |-> added, entries |-> paired, index |-> index,
                      pc |-> "loop"]
            ELSE ListLoop(by, dir, sortedfiles, added, paired, index + 1)

\* `self.cwd = new`: the reactive is set and its watcher called, which
\* creates a coroutine of watch_cwd
SetCwd(new) ==
    /\ Len(passes) < MaxPasses
    /\ cwd' = new
    /\ passes' = Append(passes, [NewPass EXCEPT !.mid = Running])
    /\ UNCHANGED <<conf, ret, files, crashed>>

\* action_refresh: bound to "r", and called by the tasks of action_copy and
\* action_delete, which run beside the message pump
ActionRefresh ==
    /\ ~crashed
    /\ SetCwd(cwd)

\* action_leave: bound to "left", handled by the message pump
ActionLeave ==
    /\ ~crashed /\ ~Running
    /\ cwd # <<>>
    /\ SetCwd(SubSeq(cwd, 1, Len(cwd) - 1))

\* on_list_view_selected, for an item that is a directory on both sides.
\* (For any other item it runs the editor and calls watch_cwd without
\* awaiting it, which runs nothing.)
OnListViewSelected ==
    /\ ~crashed /\ ~Running
    /\ \E e \in DOMAIN files :
        LET path == Append(cwd, files[e].name)
        IN  /\ IsDir(Walk(left, path)) /\ IsDir(Walk(right, path))
            /\ SetCwd(path)

\* watch_cwd from its first line to its first await
StartPass(i) ==
    /\ ~crashed
    /\ passes[i].pc = "created"
    /\ Awaited(i)
    /\ LET l == Walk(left, cwd)
           r == Walk(right, cwd)
       IN  IF IterDirError(l) # "none" \/ IterDirError(r) # "none"
           THEN /\ files' = Clear(files)
                /\ passes' = [passes EXCEPT ![i].pc = "raised", ![i].dir = cwd]
                /\ crashed' = TRUE
           ELSE \E sorted \in NatSorted(IterDir(l) \cup IterDir(r)) :
                LET st == ListLoop(i, cwd, sorted, Clear(files), <<>>, 0)
                IN  /\ files' = st.files
                    /\ passes' = [passes EXCEPT ![i] =
                            [@ EXCEPT !.pc = st.pc, !.dir = cwd,
                                      !.sortedfiles = sorted,
                                      !.index = st.index, !.entries = st.entries]]
                    /\ crashed' = (st.pc = "raised")
    /\ UNCHANGED <<conf, ret, cwd>>

\* watch_cwd resumed after `await append`
ResumeLoop(i) ==
    /\ ~crashed
    /\ passes[i].pc = "loop"
    /\ Awaited(i)
    /\ LET p == passes[i]
           st == ListLoop(i, p.dir, p.sortedfiles, files, p.entries, p.index + 1)
       IN  /\ files' = st.files
           /\ passes' = [passes EXCEPT ![i] =
                   [@ EXCEPT !.pc = st.pc, !.index = st.index,
                             !.entries = st.entries]]
           /\ crashed' = (st.pc = "raised")
    /\ UNCHANGED <<conf, ret, cwd>>

\* lines 377-379 for the k-th item of `entries`: the status of the pair is
\* assigned to the DiffEntry this pass made for the name, or diff_file raises
WriteStatus(i, k) ==
    LET p == passes[i]
        name == p.entries[k]
        status == DiffFile(Child(Walk(left, p.dir), name),
                           Child(Walk(right, p.dir), name), exclude)
    IN  IF status \in Exceptions
        THEN /\ passes' = [passes EXCEPT ![i].pc = "raised"]
             /\ crashed' = TRUE
             /\ UNCHANGED files
        ELSE /\ files' = [e \in DOMAIN files |->
                    IF files[e].by = i /\ files[e].name = name
                        THEN [files[e] EXCEPT !.status = status, !.wr = i]
                    ELSE files[e]]
             /\ passes' = [passes EXCEPT ![i].pc = "status", ![i].k = k]
             /\ UNCHANGED crashed

\* watch_cwd resumed after the `await asyncio.sleep(0)` of line 375
ResumeSleep(i) ==
    /\ ~crashed
    /\ passes[i].pc = "sleep"
    /\ Awaited(i)
    /\ IF passes[i].entries = <<>>
       THEN /\ passes' = [passes EXCEPT ![i].pc = "done"]
            /\ UNCHANGED <<files, crashed>>
       ELSE WriteStatus(i, 1)
    /\ UNCHANGED <<conf, ret, cwd>>

\* watch_cwd resumed after the `await asyncio.sleep(0)` of line 379
ResumeStatus(i) ==
    /\ ~crashed
    /\ passes[i].pc = "status"
    /\ Awaited(i)
    /\ IF passes[i].k = Len(passes[i].entries)
       THEN /\ passes' = [passes EXCEPT ![i].pc = "done"]
            /\ UNCHANGED <<files, crashed>>
       ELSE WriteStatus(i, passes[i].k + 1)
    /\ UNCHANGED <<conf, ret, cwd>>

\* the app once mounted: the roots are two directories, and initialising the
\* reactive cwd has called its watcher
Init ==
    /\ left \in {At(p, 1, <<1>>) : p \in AppRoots}
    /\ right \in {At(p, 1, <<2>>) : p \in AppRoots}
    /\ \A n \in AppPlainNames : n \in IterDir(left) <=> n \in IterDir(right)
    /\ exclude \in AppExcludes
    /\ ret = NoRet
    /\ cwd = <<>>
    /\ files = <<>>
    /\ passes = <<NewPass>>
    /\ crashed = FALSE

Next ==
    \/ ActionRefresh
    \/ ActionLeave
    \/ OnListViewSelected
    \/ \E i \in DOMAIN passes : StartPass(i)
    \/ \E i \in DOMAIN passes : ResumeLoop(i)
    \/ \E i \in DOMAIN passes : ResumeSleep(i)
    \/ \E i \in DOMAIN passes : ResumeStatus(i)

Spec == Init /\ [][Next]_vars

(***************************************************************************)
(* Claims about diff_file, diff_dir and file_type (SpecDiff)               *)
(***************************************************************************)
Exists(path) == path.obj # Nothing

\* the two paths are different files: they differ in device or in inode
Distinct(l, r) == Exists(l) /\ Exists(r) /\ ~SameFile(Stat(l), Stat(r))

\* the path is itself a regular file, not a symlink to one
RegularFile(path) == ~path.lnk /\ Exists(path) /\ S_ISREG(Stat(path))

\* C1: for two distinct regular files diff_file returns Matching exactly
\* when their bytes are equal, and Different otherwise.
C1_ContentDecides ==
    (ret.fn = "diff_file" /\ RegularFile(left) /\ RegularFile(right)
        /\ Distinct(left, right))
    => ret.status = IF left.obj.data = right.obj.data
                        THEN "Matching" ELSE "Different"

\* C2: when the two FileType values differ, the paths are different files
\* and neither is a symlink, diff_file returns Different.
C2_TypeMismatchDifferent ==
    (ret.fn = "diff_file" /\ ~left.lnk /\ ~right.lnk /\ Distinct(left, right)
        /\ FileType(left) # FileType(right))
    => ret.status = "Different"

\* the statuses of the children both directories have and diff_dir keeps
KeptNames(dir) == {n \in IterDir(dir) : ~ExcludeMatch(exclude, n)}

ChildStatuses ==
    {DiffFile(Child(left, n), Child(right, n), exclude) :
        n \in KeptNames(left) \cap KeptNames(right)}

\* C3: diff_dir returns Different if a kept name is on one side only or a
\* paired child is Different, else Unknown if a paired child is Unknown,
\* else Matching.
C3_Rollup ==
    ret.fn = "diff_dir"
    => ret.status =
        IF KeptNames(left) # KeptNames(right) \/ "Different" \in ChildStatuses
            THEN "Different"
        ELSE IF "Unknown" \in ChildStatuses THEN "Unknown"
        ELSE "Matching"

\* C4: file_type returns a FileType for every path and never raises:
\* Missing where nothing exists, Orphan for a dangling symlink.
C4_FileTypeTotal ==
    ret.fn = "file_type"
    => /\ ret.ltype \in FileTypes
       /\ (~Exists(left) /\ ~left.lnk) => ret.ltype = "Missing"
       /\ (~Exists(left) /\ left.lnk) => ret.ltype = "Orphan"

\* C5: for a left symlink with a target and a right regular file, the status
\* is that of the target against the right file (Different when the bytes
\* differ) and the left type is Symlink.
C5_SymlinkTransparent ==
    (left.lnk /\ Exists(left) /\ RegularFile(right))
    => /\ ret.fn = "file_type" => ret.ltype = "Symlink"
       /\ ret.fn = "diff_file"
            => /\ ret.status = DiffFile(Resolve(left), right, exclude)
               /\ left.obj.data # right.obj.data => ret.status = "Different"

\* both paths are the same kind, neither regular nor a directory
SameSpecialKind(l, r) ==
    /\ ~l.lnk /\ ~r.lnk /\ Exists(l) /\ Exists(r)
    /\ Stat(l).kind = Stat(r).kind
    /\ ~S_ISREG(Stat(l)) /\ ~S_ISDIR(Stat(l))

\* C6: for two different files of one such kind diff_file returns Unknown
\* and does not raise.
C6_SpecialUnknown ==
    (ret.fn = "diff_file" /\ SameSpecialKind(left, right) /\ Distinct(left, right))
    => ret.status = "Unknown"

\* C10: when both paths resolve to the same device and inode, diff_file
\* returns Matching, whatever the kind of the file.
C10_IdentityShortcut ==
    (ret.fn = "diff_file" /\ Exists(left) /\ Exists(right)
        /\ Stat(left).st_dev = Stat(right).st_dev
        /\ Stat(left).st_ino = Stat(right).st_ino)
    => ret.status = "Matching"

\* diff_file has returned Matching for two hard links of one socket, which
\* no later rule of diff_file would call Matching
C10_Witness ==
    /\ ret.fn = "diff_file" /\ ret.status = "Matching"
    /\ SameSpecialKind(left, right)
    /\ Stat(left).st_dev = Stat(right).st_dev
    /\ Stat(left).st_ino = Stat(right).st_ino

(***************************************************************************)
(* Claims about the listing pass (Spec)                                    *)
(***************************************************************************)
\* the passes whose body has been entered, and so has cleared the list
Started == {i \in DOMAIN passes : passes[i].pc # "created"}

\* the pass that cleared the list last
IsLatest(i) == i \in Started /\ \A j \in Started : j <= i

RECURSIVE Shown(_, _)
\* the names of `sortedfiles` that the loop of a pass does not skip
Shown(sortedfiles, pats) ==
    IF sortedfiles = <<>> THEN <<>>
    ELSE (IF ExcludeSearch(pats, Head(sortedfiles)) THEN <<>>
          ELSE <<Head(sortedfiles)>>) \o Shown(Tail(sortedfiles), pats)

NamesOf(items) == [e \in DOMAIN items |-> items[e].name]

\* C7: once a later pass has cleared the list, the list holds no entry an
\* earlier pass appended and no status an earlier pass assigned, and when
\* the latest pass has returned the list is exactly its entries.
C7_LastRequestWins ==
    \A i \in DOMAIN passes : IsLatest(i) =>
        /\ \A e \in DOMAIN files : files[e].by = i /\ files[e].wr \in {0, i}
        /\ passes[i].pc = "done"
            => NamesOf(files) = Shown(passes[i].sortedfiles, exclude)

\* a pass asked for while an earlier one was suspended at an await has
\* returned, after an earlier pass that listed and compared entries; the
\* list shows entries
C7_Witness ==
    \E i \in DOMAIN passes :
        /\ i > 1 /\ passes[i].mid /\ passes[i].pc = "done"
        /\ passes[i - 1].entries # <<>>
        /\ files # <<>>

\* C8: with nothing excluded, a pass that has ended its listing shows one
\* entry per name of either directory, in natural order: a name of both is a
\* paired entry, a name of the left only LeftOnly, of the right only
\* RightOnly.
C8_OneEntryPerName ==
    \A i \in DOMAIN passes :
        (/\ IsLatest(i)
         /\ passes[i].pc \in {"sleep", "status", "done", "raised"}
         /\ IterDirError(Walk(left, passes[i].dir)) = "none"
         /\ IterDirError(Walk(right, passes[i].dir)) = "none"
         /\ exclude = {})
        => LET L == IterDir(Walk(left, passes[i].dir))
               R == IterDir(Walk(right, passes[i].dir))
           IN  /\ Len(files) = Cardinality(L) + Cardinality(R) - Cardinality(L \cap R)
               /\ NamesOf(files) \in NatSorted(L \cup R)
               /\ \A e \in DOMAIN files :
                    /\ files[e].name \in L \cap R => files[e].paired
                    /\ files[e].name \in L \ R => files[e].status = "LeftOnly"
                    /\ files[e].name \in R \ L => files[e].status = "RightOnly"

\* C9: a LeftOnly entry has right type Missing and a RightOnly entry left
\* type Missing; a status is assigned only to a paired entry and is
\* Matching, Different or Unknown; a one-sided entry keeps its status.
C9_EntryInvariant ==
    \A e \in DOMAIN files :
        /\ files[e].status = "LeftOnly" => files[e].right = "Missing"
        /\ files[e].status = "RightOnly" => files[e].left = "Missing"
        /\ files[e].paired
            => files[e].status \in {"Matching", "Different", "Unknown"}
        /\ ~files[e].paired
            => files[e].wr = 0 /\ files[e].status \in {"LeftOnly", "RightOnly"}

\* after a refresh, the list shows a LeftOnly and a RightOnly entry beside a
\* paired entry whose status the pass has assigned
C9_Witness ==
    /\ Len(passes) > 1
    /\ \E e \in DOMAIN files : files[e].status = "LeftOnly"
    /\ \E e \in DOMAIN files : files[e].status = "RightOnly"
    /\ \E e \in DOMAIN files : files[e].paired /\ files[e].wr > 1

\* C11: the listing and diff_dir take the same exclusion decision.  Once
\* line 378 has assigned the status of a pair of directories, every name in
\* them is hidden by the listing (exclude.search) exactly when diff_dir
\* ignored it (exclude.match), and if every child that differs (on one side
\* only, or a pair that is Different) is hidden by the listing, the status
\* is not Different.
C11_SameExclusion ==
    \A e \in DOMAIN files :
        LET dir == passes[files[e].by].dir
            l == Child(Walk(left, dir), files[e].name)
            r == Child(Walk(right, dir), files[e].name)
            names == IterDir(l) \cup IterDir(r)
            differs(n) ==
                \/ (n \in IterDir(l)) # (n \in IterDir(r))
                \/ DiffFile(Child(l, n), Child(r, n), exclude) = "Different"
        IN  (files[e].wr # 0 /\ IsDir(l) /\ IsDir(r)) =>
                /\ \A n \in names :
                        ExcludeSearch(exclude, n) <=> ExcludeMatch(exclude, n)
                /\ (\A n \in names : differs(n) => ExcludeSearch(exclude, n))
                        => files[e].status # "Different"

====
